---- MODULE Spec2Model ----
(***************************************************************************)
(* Model of the "best practice" functions of AntiPatterns.ipynb:           *)
(*   divide (first best-practice cell and the typed redefinition),         *)
(*   read_json_file, parse_color.                                          *)
(* A call is made from the notebook top level (pc = "idle"), runs to its   *)
(* end (pc = "done") and leaves a returned value or a raised exception,    *)
(* together with whatever it wrote to the console (print) or the log.      *)
(***************************************************************************)
EXTENDS Integers, Sequences, FiniteSets, TLC

VARIABLES pc, fn, arg, result, out, raised, handle, pending

vars == <<pc, fn, arg, result, out, raised, handle, pending>>

(***************************************************************************)
(* Bounds of the explored inputs.                                          *)
(***************************************************************************)
MaxInt == 2
MaxHashes == 2
MaxStrLen == 6

(***************************************************************************)
(* Python values.  An int is val, or val * 10**400 when big is TRUE (an    *)
(* int whose magnitude is beyond the range of a float).                    *)
(***************************************************************************)
None == [kind |-> "None"]
PyInt(n) == [kind |-> "int", val |-> n, big |-> FALSE]
PyBig(n) == [kind |-> "int", val |-> n, big |-> TRUE]
PyComplex(re, im) == [kind |-> "complex", re |-> re, im |-> im]
PyStr(s) == [kind |-> "str", chars |-> s]
PyFloat(n, d) == [kind |-> "float", num |-> n, den |-> d]

Ints == {PyInt(n) : n \in (-MaxInt)..MaxInt}
Bigs == {PyBig(1), PyBig(-1)}
Complexes == {PyComplex(0, 0), PyComplex(0, 1), PyComplex(1, 1)}
Numbers == Ints \cup Bigs \cup Complexes
NonNumbers == {None, PyStr(<<"x">>)}
DivideOperands == Numbers \cup NonNumbers

IsNumber(v) == v.kind \in {"int", "complex"}
IsZero(v) ==
    \/ v.kind = "int" /\ v.val = 0
    \/ v.kind = "complex" /\ v.re = 0 /\ v.im = 0

(***************************************************************************)
(* The exception classes involved, with the builtin class hierarchy.       *)
(***************************************************************************)
Parent(cls) ==
    CASE cls = "ZeroDivisionError" -> "ArithmeticError"
      [] cls = "OverflowError" -> "ArithmeticError"
      [] cls = "ArithmeticError" -> "Exception"
      [] cls = "FileNotFoundError" -> "OSError"
      [] cls = "PermissionError" -> "OSError"
      [] cls = "IsADirectoryError" -> "OSError"
      [] cls = "NotADirectoryError" -> "OSError"
      [] cls = "OSError" -> "Exception"
      [] cls = "JSONDecodeError" -> "ValueError"
      [] cls = "UnicodeDecodeError" -> "ValueError"
      [] cls = "ValueError" -> "Exception"
      [] cls = "TypeError" -> "Exception"
      [] cls = "AttributeError" -> "Exception"
      [] OTHER -> "BaseException"

RECURSIVE IsInstance(_, _)
IsInstance(exc, cls) ==
    IF exc = cls THEN TRUE
    ELSE IF exc = "BaseException" THEN FALSE
    ELSE IsInstance(Parent(exc), cls)

\* The last matching clause wins.
FirstMatch_last(exc, clauses) ==
    IF \E i \in 1..Len(clauses) : IsInstance(exc, clauses[i])
    THEN CHOOSE i \in 1..Len(clauses) :
            /\ IsInstance(exc, clauses[i])
            /\ \A j \in (i + 1)..Len(clauses) : ~IsInstance(exc, clauses[j])
    ELSE 0

\* Index of the first except clause that matches exc, 0 when none does.
FirstMatch(exc, clauses) ==
    IF \E i \in 1..Len(clauses) : IsInstance(exc, clauses[i])
    THEN CHOOSE i \in 1..Len(clauses) :
            /\ IsInstance(exc, clauses[i])
            /\ \A j \in 1..(i - 1) : ~IsInstance(exc, clauses[j])
    ELSE 0

(***************************************************************************)
(* a / b and float(x).                                                     *)
(***************************************************************************)
Abs(n) == IF n < 0 THEN -n ELSE n

RECURSIVE GCD(_, _)
GCD(m, n) == IF n = 0 THEN m ELSE GCD(n, m % n)

Fraction(n, d) ==
    LET g == GCD(Abs(n), Abs(d))
        s == IF d < 0 THEN -1 ELSE 1
    IN  PyFloat((s * n) \div g, (s * d) \div g)

Ok(v) == [exc |-> "none", val |-> v]
Raise(e) == [exc |-> e]

\* Floor division (a // b) in place of true division.
TrueDiv_floor(a, b) ==
    IF ~IsNumber(a) \/ ~IsNumber(b) THEN Raise("TypeError")
    ELSE IF IsZero(b) THEN Raise("ZeroDivisionError")
    ELSE IF a.kind = "complex" \/ b.kind = "complex"
         THEN Ok([kind |-> "complex_quotient", n |-> a, d |-> b])
    ELSE IF a.val = 0 THEN Ok(PyFloat(0, 1))
    ELSE IF a.big /\ ~b.big THEN Raise("OverflowError")
    ELSE IF ~a.big /\ b.big THEN Ok(PyFloat(0, 1))
    ELSE Ok(PyFloat((a.val * (IF b.val < 0 THEN -1 ELSE 1)) \div Abs(b.val), 1))

TrueDiv(a, b) ==
    IF ~IsNumber(a) \/ ~IsNumber(b) THEN Raise("TypeError")
    ELSE IF IsZero(b) THEN Raise("ZeroDivisionError")
    ELSE IF a.kind = "complex" \/ b.kind = "complex"
         THEN Ok([kind |-> "complex_quotient", n |-> a, d |-> b])
    ELSE IF a.val = 0 THEN Ok(PyFloat(0, 1))
    ELSE IF a.big /\ ~b.big THEN Raise("OverflowError")
    ELSE IF ~a.big /\ b.big THEN Ok(PyFloat(0, 1))
    ELSE Ok(Fraction(a.val, b.val))

ToFloat(v) ==
    IF v.kind = "float" THEN Ok(v)
    ELSE Raise("TypeError")

(***************************************************************************)
(* Console and log messages.                                               *)
(***************************************************************************)
MsgDivZero == [sink |-> "print", text |-> "Type error: division by 0."]
MsgDivType(b) == [sink |-> "print", text |-> "Type error: division by '{0}'.", value |-> b]
MsgDivOther(e) == [sink |-> "print", text |-> "Error '{0}' occurred. Arguments {1}.", exc |-> e]
MsgNoErrors == [sink |-> "print", text |-> "No errors"]

\* What a call leaves behind: the returned value or the exception raised out
\* of the call, and the messages written.
Returned(v, msgs) == [raised |-> "none", result |-> v, out |-> msgs]
Propagated(e, msgs) == [raised |-> e, result |-> None, out |-> msgs]

DivideClauses == <<"ZeroDivisionError", "TypeError", "Exception">>

\* The finally block leaves result as it is.
FinallyResult_absent(r) == r

FinallyResult(r) == IF r = None THEN PyInt(0) ELSE r

\* The typed divide.
divide(a, b) ==
    LET q == TrueDiv(a, b)
        body == IF q.exc = "none" THEN ToFloat(q.val) ELSE q
        clause == FirstMatch(body.exc, DivideClauses)
    IN  IF body.exc = "none"
        THEN Returned(FinallyResult(body.val), <<MsgNoErrors>>)
        ELSE IF clause = 1 THEN Returned(FinallyResult(None), <<MsgDivZero>>)
        ELSE IF clause = 2 THEN Returned(FinallyResult(None), <<MsgDivType(b)>>)
        ELSE IF clause = 3 THEN Returned(FinallyResult(None), <<MsgDivOther(body.exc)>>)
        ELSE Propagated(body.exc, <<>>)

\* The first best-practice divide: no float(), and the catch-all clause
\* reads e.message, an attribute Python 3 exceptions do not have.
divide_first(a, b) ==
    LET body == TrueDiv(a, b)
        clause == FirstMatch(body.exc, DivideClauses)
    IN  IF body.exc = "none"
        THEN Returned(FinallyResult(body.val), <<MsgNoErrors>>)
        ELSE IF clause = 1 THEN Returned(FinallyResult(None), <<MsgDivZero>>)
        ELSE IF clause = 2 THEN Returned(FinallyResult(None), <<MsgDivType(b)>>)
        ELSE IF clause = 3 THEN Propagated("AttributeError", <<>>)
        ELSE Propagated(body.exc, <<>>)

(***************************************************************************)
(* read_json_file: the file system it reads and the JSON decoder.          *)
(* A file's content is a sequence of tokens; "\xff" stands for a byte      *)
(* sequence that is not valid UTF-8.                                       *)
(***************************************************************************)
MaxTokens == 3

Tokens == {"{", "}", "[", "]", "k", ":", "1", "\\xff"}

TokenSeqs(n) == UNION {[1..m -> Tokens] : m \in 0..n}

FileContents ==
    TokenSeqs(MaxTokens) \cup
    { <<"{", "k", ":", "1", "}">>,
      <<"{", "k", ":", "1">>,
      <<"{", "k", ":", "\\xff", "}">>,
      <<"[", "1", "]", "]">> }

\* What lies at a path.
Missing == [type |-> "missing"]
NoPermission == [type |-> "noperm"]
Directory == [type |-> "dir"]
BelowAFile == [type |-> "notdir"]
NulInName == [type |-> "nul"]
RegularFile(c) == [type |-> "file", content |-> c]

FsEntries ==
    {Missing, NoPermission, Directory, BelowAFile, NulInName}
        \cup {RegularFile(c) : c \in FileContents}

PyPath(e) == [kind |-> "str", entry |-> e]

ReadJsonArgs == {PyPath(e) : e \in FsEntries} \cup {None, PyInt(5)}

PyDict(items) == [kind |-> "dict", items |-> items]
PyList(elems) == [kind |-> "list", elems |-> elems]

\* Path(file_path), line 266.
PathOf(v) == IF v.kind = "str" THEN Ok(v) ELSE Raise("TypeError")

\* Path.open('r', encoding='utf-8').
OpenFile(e) ==
    CASE e.type = "missing" -> Raise("FileNotFoundError")
      [] e.type = "noperm" -> Raise("PermissionError")
      [] e.type = "dir" -> Raise("IsADirectoryError")
      [] e.type = "notdir" -> Raise("NotADirectoryError")
      [] e.type = "nul" -> Raise("ValueError")
      [] OTHER -> Ok(e.content)

IsScalarToken(t) == t = "1"

\* json.load: the whole file is read and decoded as UTF-8, then parsed.
JsonLoad(c) ==
    IF \E i \in 1..Len(c) : c[i] = "\\xff" THEN Raise("UnicodeDecodeError")
    ELSE IF c = <<"{", "}">> THEN Ok(PyDict({}))
    ELSE IF Len(c) = 5 /\ c[1] = "{" /\ c[2] = "k" /\ c[3] = ":"
              /\ IsScalarToken(c[4]) /\ c[5] = "}"
         THEN Ok(PyDict({<<c[2], PyInt(1)>>}))
    ELSE IF c = <<"[", "]">> THEN Ok(PyList(<<>>))
    ELSE IF Len(c) = 3 /\ c[1] = "[" /\ IsScalarToken(c[2]) /\ c[3] = "]"
         THEN Ok(PyList(<<PyInt(1)>>))
    ELSE IF Len(c) = 1 /\ IsScalarToken(c[1]) THEN Ok(PyInt(1))
    ELSE Raise("JSONDecodeError")

ReadClauses == <<"FileNotFoundError", "PermissionError", "JSONDecodeError",
                 "UnicodeDecodeError", "IsADirectoryError", "Exception">>

ReadTexts == <<"File not found: {file_path}",
               "Permission denied accessing file: {file_path}",
               "Invalid JSON format in {file_path}: {str(e)}",
               "File encoding error in {file_path}. Expected UTF-8",
               "Path is a directory, not a file: {file_path}",
               "Unexpected error reading {file_path}: {str(e)}">>

MsgRead(i) == [sink |-> "log", text |-> ReadTexts[i]]

\* The file is left as it is, as with a bare open() and no close().
WithExit_leak(h) == h

\* The with statement's exit: the file is closed however the block ended.
WithExit(h) == "closed"

(***************************************************************************)
(* parse_color.  Strings are sequences of characters.                      *)
(***************************************************************************)
HexAlphabet == {"0", "a", "F", "-", "g"}

Chars(n) == UNION {[1..m -> HexAlphabet] : m \in 0..n}

RECURSIVE Hashes(_)
Hashes(n) == IF n = 0 THEN <<>> ELSE <<"#">> \o Hashes(n - 1)

NamedInputs ==
    { <<"r", "e", "d">>, <<"g", "r", "e", "e", "n">>, <<"b", "l", "u", "e">>,
      <<"w", "h", "i", "t", "e">>, <<"b", "l", "a", "c", "k">>,
      <<"B", "L", "U", "E">>, <<"R", "e", "d">> }

OtherStrings ==
    { <<"F", "F", "0", "0", "0", "0">>, <<"b", "l", "a", "c", "k", "#">>,
      <<" ", "f", " ", "f", " ", "f">>, <<"+", "1", "+", "1", "+", "1">>,
      <<"f", " ", "f", " ", "f", " ">>, <<"0", "x", "0", "x", "0", "x">>,
      <<"n", "o", "t", " ", "a", " ", "c", "o", "l", "o", "r">> }

ColorStrings ==
    {PyStr(Hashes(h) \o s) :
        h \in 0..MaxHashes, s \in Chars(MaxStrLen) \cup NamedInputs \cup OtherStrings}

ChannelValues == {-5, 0, 10, 255, 256, 300}

PyTuple(elems) == [kind |-> "tuple", elems |-> elems]

ColorTuples ==
    {PyTuple(<<PyInt(r), PyInt(g), PyInt(b)>>) :
        r \in ChannelValues, g \in ChannelValues, b \in ChannelValues}
    \cup { PyTuple(<<PyInt(1), PyInt(2)>>),
           PyTuple(<<PyInt(1), PyInt(2), PyInt(3), PyInt(4)>>),
           PyTuple(<<None, PyInt(1), PyInt(2)>>),
           PyTuple(<<>>) }

ColorArgs == ColorStrings \cup ColorTuples \cup {None, PyInt(5)}

RGB(r, g, b) == [kind |-> "RGB", red |-> r, green |-> g, blue |-> b]

COLOR_NAMES ==
    [n \in { <<"r", "e", "d">>, <<"g", "r", "e", "e", "n">>, <<"b", "l", "u", "e">>,
             <<"w", "h", "i", "t", "e">>, <<"b", "l", "a", "c", "k">> } |->
        CASE n = <<"r", "e", "d">> -> <<255, 0, 0>>
          [] n = <<"g", "r", "e", "e", "n">> -> <<0, 255, 0>>
          [] n = <<"b", "l", "u", "e">> -> <<0, 0, 255>>
          [] n = <<"w", "h", "i", "t", "e">> -> <<255, 255, 255>>
          [] n = <<"b", "l", "a", "c", "k">> -> <<0, 0, 0>>]

\* str.lower, one character.
LowerChar(c) ==
    CASE c = "A" -> "a" [] c = "B" -> "b" [] c = "C" -> "c" [] c = "D" -> "d"
      [] c = "E" -> "e" [] c = "F" -> "f" [] c = "L" -> "l" [] c = "R" -> "r"
      [] c = "U" -> "u"
      [] OTHER -> c

Lower(s) == [i \in 1..Len(s) |-> LowerChar(s[i])]

\* Nothing is stripped.
LStripHash_kept(s) == s

\* str.lstrip('#'): every leading '#' goes.
RECURSIVE LStripHash(_)
LStripHash(s) ==
    IF s # <<>> /\ Head(s) = "#" THEN LStripHash(Tail(s)) ELSE s

\* Value of a hexadecimal digit, -1 for any other character.
HexDigit(c) ==
    CASE c = "0" -> 0 [] c = "1" -> 1 [] c = "2" -> 2 [] c = "3" -> 3
      [] c = "4" -> 4 [] c = "5" -> 5 [] c = "6" -> 6 [] c = "7" -> 7
      [] c = "8" -> 8 [] c = "9" -> 9
      [] c \in {"a", "A"} -> 10 [] c \in {"b", "B"} -> 11
      [] c \in {"c", "C"} -> 12 [] c \in {"d", "D"} -> 13
      [] c \in {"e", "E"} -> 14 [] c \in {"f", "F"} -> 15
      [] OTHER -> -1

\* int(s, 16) of a two-character string: two digits, a sign and a digit, or
\* a digit with white space before or after it.
IntBase16(s) ==
    LET h1 == HexDigit(s[1])
        h2 == HexDigit(s[2])
    IN  IF h1 >= 0 /\ h2 >= 0 THEN [exc |-> "none", val |-> 16 * h1 + h2]
        ELSE IF s[1] = "-" /\ h2 >= 0 THEN [exc |-> "none", val |-> -h2]
        ELSE IF s[1] \in {"+", " "} /\ h2 >= 0 THEN [exc |-> "none", val |-> h2]
        ELSE IF h1 >= 0 /\ s[2] = " " THEN [exc |-> "none", val |-> h1]
        ELSE Raise("ValueError")

Min(x, y) == IF x < y THEN x ELSE y
Max(x, y) == IF x > y THEN x ELSE y

\* max(0, min(255, c)), line 427.
Clamp(c) == Max(0, Min(255, c))

\* The try block of parse_color, lines 409-430.
ParseColorBody(color) ==
    IF color.kind = "str"
    THEN LET c == Lower(LStripHash(color.chars))
         IN  IF c \in DOMAIN COLOR_NAMES
             THEN Ok(RGB(COLOR_NAMES[c][1], COLOR_NAMES[c][2], COLOR_NAMES[c][3]))
             ELSE IF Len(c) = 6
             THEN LET r == IntBase16(SubSeq(c, 1, 2))
                      g == IntBase16(SubSeq(c, 3, 4))
                      b == IntBase16(SubSeq(c, 5, 6))
                  IN  IF r.exc # "none" \/ g.exc # "none" \/ b.exc # "none"
                      THEN Raise("ValueError")
                      ELSE Ok(RGB(r.val, g.val, b.val))
             ELSE Raise("ValueError")
    ELSE IF color.kind = "tuple" /\ Len(color.elems) = 3
    THEN IF \E i \in 1..3 : color.elems[i].kind # "int"
         THEN Raise("TypeError")
         ELSE Ok(RGB(Clamp(color.elems[1].val), Clamp(color.elems[2].val),
                     Clamp(color.elems[3].val)))
    ELSE Raise("ValueError")

ColorClauses == <<"Exception">>

parse_color(color) ==
    LET body == ParseColorBody(color)
    IN  IF body.exc = "none" THEN Returned(body.val, <<>>)
        ELSE IF FirstMatch(body.exc, ColorClauses) = 1
        THEN Returned(RGB(0, 0, 0), <<>>)
        ELSE Propagated(body.exc, <<>>)

(***************************************************************************)
(* State machine.                                                          *)
(***************************************************************************)
Init ==
    /\ pc = "idle"
    /\ fn = "none"
    /\ arg = <<>>
    /\ result = None
    /\ out = <<>>
    /\ raised = "none"
    /\ handle = "none"
    /\ pending = "none"

Finish(name, args, outcome) ==
    /\ pc' = "done"
    /\ fn' = name
    /\ arg' = args
    /\ result' = outcome.result
    /\ out' = outcome.out
    /\ raised' = outcome.raised
    /\ UNCHANGED <<handle, pending>>

CallDivide ==
    /\ pc = "idle"
    /\ \E a \in DivideOperands, b \in DivideOperands :
          Finish("divide", <<a, b>>, divide(a, b))

CallDivideFirst ==
    /\ pc = "idle"
    /\ \E a \in DivideOperands, b \in DivideOperands :
          Finish("divide_first", <<a, b>>, divide_first(a, b))

CallParseColor ==
    /\ pc = "idle"
    /\ \E color \in ColorArgs :
          Finish("parse_color", <<color>>, parse_color(color))

\* Lines 266-267: the argument becomes a Path, result starts as {}.
ReadJsonCall ==
    /\ pc = "idle"
    /\ \E file_path \in ReadJsonArgs :
          /\ fn' = "read_json_file"
          /\ arg' = <<file_path>>
          /\ IF PathOf(file_path).exc = "none"
             THEN /\ pc' = "rj_open"
                  /\ result' = PyDict({})
                  /\ raised' = "none"
             ELSE /\ pc' = "done"
                  /\ result' = None
                  /\ raised' = PathOf(file_path).exc
    /\ UNCHANGED <<out, handle, pending>>

\* Line 270: the file is opened, or opening it raises.
ReadJsonOpen ==
    /\ pc = "rj_open"
    /\ LET f == OpenFile(arg[1].entry)
       IN  IF f.exc = "none"
           THEN /\ handle' = "open"
                /\ pc' = "rj_load"
                /\ UNCHANGED pending
           ELSE /\ pending' = f.exc
                /\ pc' = "rj_except"
                /\ UNCHANGED handle
    /\ UNCHANGED <<fn, arg, result, out, raised>>

\* Line 271: result = json.load(file).
ReadJsonLoad ==
    /\ pc = "rj_load"
    /\ LET v == JsonLoad(arg[1].entry.content)
       IN  IF v.exc = "none"
           THEN /\ result' = v.val
                /\ UNCHANGED pending
           ELSE /\ pending' = v.exc
                /\ UNCHANGED result
    /\ pc' = "rj_exit"
    /\ UNCHANGED <<fn, arg, out, raised, handle>>

\* The with block is left, normally or by the exception in flight.
ReadJsonExit ==
    /\ pc = "rj_exit"
    /\ handle' = WithExit(handle)
    /\ pc' = IF pending = "none" THEN "rj_return" ELSE "rj_except"
    /\ UNCHANGED <<fn, arg, result, out, raised, pending>>

\* Lines 272-283: the first matching except clause logs the error.
ReadJsonExcept ==
    /\ pc = "rj_except"
    /\ LET clause == FirstMatch(pending, ReadClauses)
       IN  IF clause = 0
           THEN /\ raised' = pending
                /\ pc' = "done"
                /\ UNCHANGED out
           ELSE /\ out' = Append(out, MsgRead(clause))
                /\ pc' = "rj_return"
                /\ UNCHANGED raised
    /\ pending' = "none"
    /\ UNCHANGED <<fn, arg, result, handle>>

\* Line 285.
ReadJsonReturn ==
    /\ pc = "rj_return"
    /\ pc' = "done"
    /\ UNCHANGED <<fn, arg, result, out, raised, handle, pending>>

\* The notebook goes on to its next call; calls share no state.
NextCall ==
    /\ pc = "done"
    /\ pc' = "idle"
    /\ fn' = "none"
    /\ arg' = <<>>
    /\ result' = None
    /\ out' = <<>>
    /\ raised' = "none"
    /\ handle' = "none"
    /\ pending' = "none"

Next ==
    \/ CallDivide
    \/ CallDivideFirst
    \/ CallParseColor
    \/ ReadJsonCall
    \/ ReadJsonOpen
    \/ ReadJsonLoad
    \/ ReadJsonExit
    \/ ReadJsonExcept
    \/ ReadJsonReturn
    \/ NextCall

Spec == Init /\ [][Next]_vars

(***************************************************************************)
(* Properties.                                                             *)
(***************************************************************************)
Done(name) == pc = "done" /\ fn = name

ZeroInt == PyInt(0)
EmptyDict == PyDict({})
Black == RGB(0, 0, 0)

\* C1: a call to divide (either best-practice cell), read_json_file or
\* parse_color always ends by returning a value; no exception raised during
\* the call propagates out of it.
C1_NoExceptionEscapes ==
    pc = "done" => raised = "none"

\* The int operands whose quotient a float can hold.
IsInt(v) == v.kind = "int"
QuotientOverflows(a, b) == a.val # 0 /\ a.big /\ ~b.big
QuotientUnderflows(a, b) == a.val # 0 /\ ~a.big /\ b.big

IsQuotient(r, a, b) ==
    /\ r.kind = "float"
    /\ r.den > 0
    /\ IF QuotientUnderflows(a, b) THEN r.num = 0
       ELSE r.num * b.val = a.val * r.den

ReadFailure(v) ==
    IF v.kind # "str" THEN "TypeError"
    ELSE IF v.entry.type = "missing" THEN "FileNotFoundError"
    ELSE IF v.entry.type = "noperm" THEN "PermissionError"
    ELSE IF v.entry.type = "dir" THEN "IsADirectoryError"
    ELSE IF v.entry.type = "notdir" THEN "NotADirectoryError"
    ELSE IF v.entry.type = "nul" THEN "ValueError"
    ELSE JsonLoad(v.entry.content).exc

\* The category the claim assigns to a failure: the first that matches.
ReadCategory(e) ==
    IF e = "FileNotFoundError" THEN "File not found: {file_path}"
    ELSE IF e = "PermissionError" THEN "Permission denied accessing file: {file_path}"
    ELSE IF e = "JSONDecodeError" THEN "Invalid JSON format in {file_path}: {str(e)}"
    ELSE IF e = "UnicodeDecodeError" THEN "File encoding error in {file_path}. Expected UTF-8"
    ELSE IF e = "IsADirectoryError" THEN "Path is a directory, not a file: {file_path}"
    ELSE "Unexpected error reading {file_path}: {str(e)}"

\* C5: every failing call of read_json_file logs exactly one diagnostic, of
\* the first matching category, and returns an empty mapping.
C5_OneDiagnosticPerFailure ==
    (Done("read_json_file") /\ ReadFailure(arg[1]) # "none")
        => /\ raised = "none"
           /\ result = EmptyDict
           /\ Len(out) = 1
           /\ out[1].sink = "log"
           /\ out[1].text = ReadCategory(ReadFailure(arg[1]))

\* C6: once read_json_file has left the with block, and when it returns,
\* the file it opened is closed, on the success path and on every failure
\* path.
C6_HandleReleased ==
    (fn = "read_json_file" /\ pc \in {"rj_except", "rj_return", "done"})
        => handle # "open"

C6_Witness ==
    /\ Done("read_json_file")
    /\ handle = "closed"
    /\ Len(out) = 1
    /\ result = EmptyDict

\* C7: read_json_file returns the decoded content of a valid JSON file, and
\* what it returns is a mapping on every call.
C7_AlwaysAMapping ==
    (Done("read_json_file") /\ raised = "none")
        => /\ result.kind = "dict"
           /\ (ReadFailure(arg[1]) = "none"
                 => result = JsonLoad(arg[1].entry.content).val)

IsHexString(s) == Len(s) = 6 /\ \A i \in 1..6 : HexDigit(s[i]) >= 0

Byte(s, i) == 16 * HexDigit(s[i]) + HexDigit(s[i + 1])

NameValue(s) ==
    IF s = <<"r", "e", "d">> THEN RGB(255, 0, 0)
    ELSE IF s = <<"g", "r", "e", "e", "n">> THEN RGB(0, 255, 0)
    ELSE IF s = <<"b", "l", "u", "e">> THEN RGB(0, 0, 255)
    ELSE IF s = <<"w", "h", "i", "t", "e">> THEN RGB(255, 255, 255)
    ELSE IF s = <<"b", "l", "a", "c", "k">> THEN Black
    ELSE None

WithoutHash(s) == IF s # <<>> /\ s[1] = "#" THEN Tail(s) ELSE s

\* C8: a string of six hex digits, with or without a leading '#', in either
\* letter case, gives the triple of its three bytes; each of the names red,
\* green, blue, white, black gives its table value.
C8_HexAndNames ==
    (Done("parse_color") /\ arg[1].kind = "str")
        => /\ IsHexString(WithoutHash(arg[1].chars))
                => result = RGB(Byte(WithoutHash(arg[1].chars), 1),
                                Byte(WithoutHash(arg[1].chars), 3),
                                Byte(WithoutHash(arg[1].chars), 5))
           /\ NameValue(arg[1].chars) # None
                => result = NameValue(arg[1].chars)

C8_Witness ==
    /\ Done("parse_color")
    /\ arg = <<PyStr(<<"#", "F", "F", "0", "0", "a", "0">>)>>
    /\ result = RGB(255, 0, 160)

InRange(n) == 0 <= n /\ n <= 255

\* C9: every channel of the value parse_color returns lies in [0,255]; the
\* channels of a 3-tuple are clamped to the nearest bound.
C9_ChannelsInRange ==
    (Done("parse_color") /\ raised = "none")
        => /\ InRange(result.red)
           /\ InRange(result.green)
           /\ InRange(result.blue)

\* The descriptors the claim calls unparseable.
Unparseable(v) ==
    \/ /\ v.kind = "str"
       /\ Lower(LStripHash(v.chars)) \notin DOMAIN COLOR_NAMES
       /\ ~IsHexString(Lower(LStripHash(v.chars)))
    \/ /\ v.kind = "tuple"
       /\ Len(v.elems) # 3
    \/ v.kind \notin {"str", "tuple"}

\* C10: for an unparseable descriptor parse_color returns (0,0,0) and emits
\* exactly one diagnostic.
C10_SentinelAndDiagnostic ==
    (Done("parse_color") /\ Unparseable(arg[1]))
        => /\ raised = "none"
           /\ result = Black
           /\ Len(out) = 1

====
